---- MODULE Spec2Model ----
(***************************************************************************)
(* Model of the Pawn compiler acquisition pipeline of sampctl              *)
(* (src/compiler.go): GetCompilerPackage, GetCompilerPackageInfo,          *)
(* CompilerFromCache and CompilerFromNet.                                  *)
(*                                                                         *)
(* GetCacheDir, FromCache, FromNet, exists and the extraction methods       *)
(* Unzip and Untar are called by compiler.go and defined elsewhere; they   *)
(* are modelled by their contracts (design sections 4.3 to 4.5): FromCache *)
(* misses on an absent file and else extracts, FromNet replaces the cache  *)
(* file only when the fetch succeeds, an extraction fails on a file that   *)
(* is no archive, on a missing member and on a directory that cannot be    *)
(* written.                                                                *)
(*                                                                         *)
(* Strings are sequences of tokens.  A token of a catalog template is a    *)
(* piece of literal text holding none of the characters "/", "?", "#",     *)
(* "%", or one of those characters alone, or the placeholder VER; a token  *)
(* of a version string is one character, or the text of the placeholder.   *)
(***************************************************************************)
EXTENDS Naturals, Sequences, FiniteSets

\* ------------------------------------------------------------------ bounds

\* number of GetCompilerPackage runs a behaviour may start
MaxRuns == 2
\* number of entries of VersionList the runs of GetCompilerPackage may get
NumVersions == 3

\* The version strings, as sequences of characters.  The first two name
\* the same cache file (url.Parse decodes %41 to A), the third and the
\* fourth do not pass url.Parse.
VersionList ==
  << <<"A">>, <<"%", "4", "1">>, <<"%">>, <<"%", "#">>, <<"3", ".", "1">>, <<"<">>,
     <<"+">>, <<"{{.Version}}">>, <<"a", "\\", "b">>, <<"\\x00">> >>

\* the versions GetCompilerPackage is run with
Versions == { VersionList[i] : i \in 1..NumVersions }

\* the versions GetCompilerPackageInfo is called with directly
AllVersions == { VersionList[i] : i \in DOMAIN VersionList }

\* platform identifiers: the three of the catalog and one outside it
Platforms == {"windows", "linux", "darwin", "plan9"}

Dirs == {"d1", "d2"}

\* ------------------------------------------------------- strings and errors

VER == "{{.Version}}"

RECURSIVE Concat(_)
Concat(ss) == IF ss = <<>> THEN <<>> ELSE Head(ss) \o Concat(Tail(ss))

\* index of the first occurrence of token t in s, 0 if none
RECURSIVE IndexFrom(_, _, _)
IndexFrom(s, t, i) ==
  IF i > Len(s) THEN 0 ELSE IF s[i] = t THEN i ELSE IndexFrom(s, t, i + 1)

IndexOf(s, t) == IndexFrom(s, t, 1)

\* the part of s before the first occurrence of t (all of s if none)
Before(s, t) == IF IndexOf(s, t) = 0 THEN s ELSE SubSeq(s, 1, IndexOf(s, t) - 1)

\* An error is the chain of its messages, outermost first; nil is <<>>.
\* A message is <<text, argument>>.
Nil == <<>>

Errorf(msg, arg) == << <<msg, arg>> >>

Wrapf(e, msg, arg) == << <<msg, arg>> >> \o e

Cause(e) == e[Len(e)]

\* ------------------------------------------------------------------- state

VARIABLES
  catalog,       \* the package variables pawnMacOS, pawnLinux, pawnWin32
  GOOS,          \* runtime.GOOS of the running process
  cacheDirState, \* the cache directory: "unknown", "missing", "blocked" or "exists"
  cache,         \* cache file name -> "absent", "corrupt" or an archive
  dirState,      \* install directory -> "missing", "blocked", "writable", "readonly"
  pc,            \* position of the GetCompilerPackage run
  version,       \* argument version of the run
  dir,           \* argument dir of the run
  hit,           \* result hit of CompilerFromCache
  err,           \* the run's error
  pkg,           \* local pkg of CompilerFromCache, then of CompilerFromNet
  filename,      \* local filename of CompilerFromCache, then of CompilerFromNet
  path,          \* the path FromNet returned
  ops,           \* the calls the run has made so far, in order, with their results
  written,       \* the files the run has written into dir
  runs,          \* number of runs started
  intact,        \* versions whose last run succeeded, their cache file not written
                 \* since but by their own runs
  recovered,     \* the versions of intact whose cache file a run found corrupt
                 \* and replaced, every run of theirs since a cache hit
  info           \* result of the last direct GetCompilerPackageInfo call

vars ==
  << catalog, GOOS, cacheDirState, cache, dirState, pc, version, dir, hit, err,
     pkg, filename, path, ops, written, runs, intact, recovered, info >>

\* ----------------------------------------------------------------- catalog

URLTemplate(suffix) ==
  << "https:", "/", "/", "github.com", "/", "Zeex", "/", "pawn", "/",
     "releases", "/", "download", "/", "v", VER, "/", "pawnc-", VER, suffix >>

MemberTemplate(platform, folder, file) ==
  << "pawnc-", VER, platform, "/", folder, "/", file >>

pawnMacOS ==
  [ URL    |-> URLTemplate("-darwin.zip"),
    Method |-> "Unzip",
    Paths  |-> { << MemberTemplate("-darwin", "bin", "pawncc"), <<"pawncc">> >>,
                 << MemberTemplate("-darwin", "lib", "libpawnc.dylib"),
                    <<"libpawnc.dylib">> >> } ]

pawnLinux ==
  [ URL    |-> URLTemplate("-linux.tar.gz"),
    Method |-> "Untar",
    Paths  |-> { << MemberTemplate("-linux", "bin", "pawncc"), <<"pawncc">> >>,
                 << MemberTemplate("-linux", "lib", "libpawnc.so"),
                    <<"libpawnc.so">> >> } ]

pawnWin32 ==
  [ URL    |-> URLTemplate("-windows.zip"),
    Method |-> "Unzip",
    Paths  |-> { << MemberTemplate("-windows", "bin", "pawncc.exe"),
                    <<"pawncc.exe">> >>,
                 << MemberTemplate("-windows", "bin", "pawnc.dll"),
                    <<"pawnc.dll">> >> } ]

\* the zero value of CompilerPackage
NoPackage == [ URL |-> <<>>, Method |-> "nil", Paths |-> {} ]

\* ------------------------------------------------------ template execution

\* the byte 0 of a version string, and the character U+FFFD
NUL == "\\x00"

ReplacementCharacter == "U+FFFD"

\* html/template writes a string value into HTML text through its
\* replacement table; every other character is written as it is.
HTMLReplacement(c) ==
  CASE c = NUL  -> <<ReplacementCharacter>>
    [] c = "<"  -> <<"&", "l", "t", ";">>
    [] c = ">"  -> <<"&", "g", "t", ";">>
    [] c = "&"  -> <<"&", "a", "m", "p", ";">>
    [] c = "+"  -> <<"&", "#", "4", "3", ";">>
    [] c = "'"  -> <<"&", "#", "3", "9", ";">>
    [] c = "\"" -> <<"&", "#", "3", "4", ";">>
    [] OTHER    -> <<c>>

HTMLEscape(s) == Concat([i \in 1..Len(s) |-> HTMLReplacement(s[i])])

\* template.Must(template.New(..).Parse(tmpl)) followed by
\* Execute(wr, struct{ Version string }{v}) and wr.String()
Execute(tmpl, v) ==
  Concat([i \in 1..Len(tmpl) |->
            IF tmpl[i] = VER THEN HTMLEscape(v) ELSE <<tmpl[i]>>])

\* ------------------------------------------------- url.Parse, filepath.Base

HexLower ==
  << "0", "1", "2", "3", "4", "5", "6", "7", "8", "9",
     "a", "b", "c", "d", "e", "f" >>

HexUpper ==
  << "0", "1", "2", "3", "4", "5", "6", "7", "8", "9",
     "A", "B", "C", "D", "E", "F" >>

HexDigits ==
  { "0", "1", "2", "3", "4", "5", "6", "7", "8", "9",
    "a", "b", "c", "d", "e", "f", "A", "B", "C", "D", "E", "F" }

\* unhex
HexValue(h) ==
  IF IndexOf(HexLower, h) > 0 THEN IndexOf(HexLower, h) - 1
  ELSE IndexOf(HexUpper, h) - 1

\* the characters of the bytes 32 to 126 (byte 96 is written \x60)
Ascii ==
  << " ", "!", "\"", "#", "$", "%", "&", "'", "(", ")", "*", "+", ",", "-",
     ".", "/", "0", "1", "2", "3", "4", "5", "6", "7", "8", "9", ":", ";",
     "<", "=", ">", "?", "@", "A", "B", "C", "D", "E", "F", "G", "H", "I",
     "J", "K", "L", "M", "N", "O", "P", "Q", "R", "S", "T", "U", "V", "W",
     "X", "Y", "Z", "[", "\\", "]", "^", "_", "\\x60", "a", "b", "c", "d", "e",
     "f", "g", "h", "i", "j", "k", "l", "m", "n", "o", "p", "q", "r", "s",
     "t", "u", "v", "w", "x", "y", "z", "{", "|", "}", "~" >>

\* the token of a byte: its character, or \xHH for a byte that has none
Byte(n) ==
  IF n >= 32 /\ n <= 126 THEN Ascii[n - 31]
  ELSE "\\x" \o HexUpper[(n \div 16) + 1] \o HexUpper[(n % 16) + 1]

\* the bytes url.Parse rejects in a URL: below 32, and 127
ControlBytes == { Byte(n) : n \in 0..31 } \cup { Byte(127) } \cup { "\t", "\n", "\r" }

\* a "%" that does not start a two-digit escape
InvalidEscape(s) ==
  \E i \in 1..Len(s) :
    /\ s[i] = "%"
    /\ ~ ( /\ i + 2 <= Len(s)
           /\ s[i + 1] \in HexDigits
           /\ s[i + 2] \in HexDigits )

\* the byte a valid escape stands for
Unescaped(h1, h2) == Byte(16 * HexValue(h1) + HexValue(h2))

RECURSIVE Unescape(_)
Unescape(s) ==
  IF s = <<>> THEN <<>>
  ELSE IF Head(s) = "%"
       THEN <<Unescaped(s[2], s[3])>> \o Unescape(SubSeq(s, 4, Len(s)))
       ELSE <<Head(s)>> \o Unescape(Tail(s))

\* url.Parse of an absolute URL scheme://host/path?query#fragment:
\* the fragment is cut at the first "#"; what is left is refused if it
\* holds a control byte; the query is cut at the first "?", the authority
\* ends at the first "/" after "//", the rest is the path, unescaped.  An
\* error of this part names the URL without its fragment, an error of the
\* fragment names the whole URL.
URLParse(u) ==
  LET noFrag  == Before(u, "#")
      frag    == SubSeq(u, Len(noFrag) + 2, Len(u))
      noQuery == Before(noFrag, "?")
      rest    == SubSeq(noQuery, 4, Len(noQuery))
      slash   == IndexOf(rest, "/")
      rawPath == IF slash = 0 THEN <<>> ELSE SubSeq(rest, slash, Len(rest))
  IN  IF \E i \in 1..Len(noFrag) : noFrag[i] \in ControlBytes
      THEN [ err  |-> Errorf("parse: invalid control character in URL", noFrag),
             Path |-> <<>> ]
      ELSE IF InvalidEscape(rawPath)
      THEN [ err |-> Errorf("parse: invalid URL escape", noFrag), Path |-> <<>> ]
      ELSE IF InvalidEscape(frag)
      THEN [ err |-> Errorf("parse: invalid URL escape", u), Path |-> <<>> ]
      ELSE [ err |-> Nil, Path |-> Unescape(rawPath) ]

\* os.IsPathSeparator of the build: "/" and, on windows, "\"
IsPathSeparator(c) == c = "/" \/ (GOOS = "windows" /\ c = "\\")

\* filepath.Separator of the build
Separator == IF GOOS = "windows" THEN "\\" ELSE "/"

RECURSIVE TrimSlashes(_)
TrimSlashes(p) ==
  IF p # <<>> /\ IsPathSeparator(p[Len(p)])
  THEN TrimSlashes(SubSeq(p, 1, Len(p) - 1))
  ELSE p

\* index of the last path separator of q, 0 if none
RECURSIVE LastSeparatorFrom(_, _)
LastSeparatorFrom(q, i) ==
  IF i = 0 THEN 0
  ELSE IF IsPathSeparator(q[i]) THEN i ELSE LastSeparatorFrom(q, i - 1)

\* filepath.Base.  The path of a catalog URL starts with "/Zeex", which
\* holds no volume name on any build.
Base(p) ==
  IF p = <<>> THEN <<".">>
  ELSE LET q == TrimSlashes(p)
           r == SubSeq(q, LastSeparatorFrom(q, Len(q)) + 1, Len(q))
       IN  IF r = <<>> THEN <<Separator>> ELSE r

\* ------------------------------------------------- GetCompilerPackageInfo

Supported == {"windows", "linux", "darwin"}

\* the package variables as the program starts
InitialCatalog ==
  [ pawnWin32 |-> pawnWin32, pawnLinux |-> pawnLinux, pawnMacOS |-> pawnMacOS ]

\* pkg = pawnWin32, pkg = pawnLinux, pkg = pawnMacOS: the value of the
\* package variable the platform test selects
Catalog(os) ==
  IF os = "windows" THEN catalog.pawnWin32
  ELSE IF os = "linux" THEN catalog.pawnLinux
  ELSE catalog.pawnMacOS

\* mutant: the loop executes the target templates and copies the sources
NewPaths_SourcesCopied(paths, v) ==
  { << p[1], Execute(p[2], v) >> : p \in paths }

\* the loop over pkg.Paths that fills newPaths
NewPaths(paths, v) ==
  { << Execute(p[1], v), Execute(p[2], v) >> : p \in paths }

\* the error of the last branch of the platform test
UnsupportedOS(os) == Errorf("unsupported OS", GOOS)

\* lines 87-121: the templates of the platform's package executed with the
\* version, the URL parsed and the base name of its path taken
Resolved(os, v) ==
  LET tmpl == Catalog(os)
      copy == [ URL    |-> Execute(tmpl.URL, v),
                Method |-> tmpl.Method,
                Paths  |-> NewPaths(tmpl.Paths, v) ]
      u    == URLParse(copy.URL)
  IN  IF u.err # Nil
      THEN [ pkg |-> copy, filename |-> <<>>, err |-> u.err ]
      ELSE [ pkg |-> copy, filename |-> Base(u.Path), err |-> Nil ]

GetCompilerPackageInfo(os, v) ==
  IF os \notin Supported
  THEN [ pkg |-> NoPackage, filename |-> <<>>, err |-> UnsupportedOS(os) ]
  ELSE Resolved(os, v)

\* mutant: the loop stores the executed entries into pkg.Paths, the map
\* the package variable holds as well
CatalogAfter_SharedMap(os, v) ==
  IF os = "windows"
  THEN [ catalog EXCEPT !.pawnWin32.Paths = @ \cup NewPaths(@, v) ]
  ELSE IF os = "linux"
  THEN [ catalog EXCEPT !.pawnLinux.Paths = @ \cup NewPaths(@, v) ]
  ELSE IF os = "darwin"
  THEN [ catalog EXCEPT !.pawnMacOS.Paths = @ \cup NewPaths(@, v) ]
  ELSE catalog

\* the package variables after GetCompilerPackageInfo(os, v): pkg is a
\* copy of the package variable, pkg.URL is assigned in the copy, the
\* executed entries go into the new map newPaths and pkg.Paths is made to
\* point at it; the map of the package variable is only read
CatalogAfter(os, v) == catalog

Keys(paths) == { p[1] : p \in paths }

Values(paths) == { p[2] : p \in paths }

\* --------------------------------------------- the file system and the net

DirStates == {"missing", "blocked", "writable", "readonly"}

Absent == [ state |-> "absent", members |-> {} ]

Corrupt == [ state |-> "corrupt", members |-> {} ]

Archive(members) == [ state |-> "archive", members |-> members ]

\* the names of the cache files of the running platform
OwnFiles ==
  { GetCompilerPackageInfo(GOOS, v).filename :
      v \in { w \in Versions : GetCompilerPackageInfo(GOOS, w).err = Nil } }

\* exists(dir) on an install directory
exists(d) == dirState[d] \in {"writable", "readonly"}

\* exists(cacheDir)
existsCacheDir == cacheDirState = "exists"

\* "unknown": the cache directory of the user cannot be determined
CacheDirStates == {"unknown", "missing", "blocked", "exists"}

\* the error of GetCacheDir()
GetCacheDirResult ==
  IF cacheDirState = "unknown" THEN Errorf("no cache directory", <<>>) ELSE Nil

\* filepath.Join(cacheDir, filename), and the file name of such a path
Join(f) == <<"cacheDir", "/">> \o f

FileOf(p) == SubSeq(p, 3, Len(p))

\* the file at a path, Absent if there is none
EntryAt(p) == IF FileOf(p) \in DOMAIN cache THEN cache[FileOf(p)] ELSE Absent

\* The extraction methods Unzip and Untar: the outcomes of extracting the
\* members named by the keys of paths from a cache file into a directory
\* in state ds.  A file that is no archive fails; a member the archive
\* lacks fails with that member named, the members found before it may
\* have been written; a directory that cannot be written or created fails.
ExtractOutcomes(entry, ds, paths) ==
  LET found   == Keys(paths) \cap entry.members
      missing == Keys(paths) \ entry.members
      files   == { p[2] : p \in { q \in paths : q[1] \in found } }
  IN  IF entry.state # "archive"
      THEN { [ err |-> Errorf("not an archive", <<>>), written |-> {} ] }
      ELSE IF ds \in {"blocked", "readonly"}
      THEN { [ err |-> Errorf("write failed", <<>>), written |-> {} ] :
               m \in found }
           \cup
           { [ err |-> Errorf("missing member", m), written |-> {} ] :
               m \in missing }
      ELSE IF missing = {}
      THEN { [ err |-> Nil, written |-> files ] }
      ELSE { [ err |-> Errorf("missing member", o[1]), written |-> o[2] ] :
               o \in missing \X SUBSET files }

\* the state of a directory after files were written into it
AfterWrite(ds, files) ==
  IF files # {} /\ ds = "missing" THEN "writable" ELSE ds

\* FromCache(cacheDir, filename, dir, method, paths): a miss without error
\* if the file is absent, else the extraction; a failed extraction is a
\* miss with an error.
FromCacheOutcomes(f, d, paths) ==
  IF ~ existsCacheDir \/ cache[f].state = "absent"
  THEN { [ hit |-> FALSE, err |-> Nil, written |-> {} ] }
  ELSE { [ hit     |-> o.err = Nil,
           err     |-> IF o.err = Nil THEN Nil
                       ELSE Wrapf(o.err, "failed to extract cached package", f),
           written |-> o.written ] :
           o \in ExtractOutcomes(cache[f], dirState[d], paths) }

\* what a download can put under the final file name: an archive with
\* the members the path map names, an archive that lacks one of them, or
\* a file that is no archive
Downloads(paths) ==
  { Archive(Keys(paths)) } \cup { Archive(Keys(paths) \ {k}) : k \in Keys(paths) }
  \cup { Corrupt }

\* FromNet(url, cacheDir, filename): a failed fetch leaves the cache as it
\* was; a fetch that succeeds replaces the file and returns its path.
FromNetOutcomes(url, f, paths) ==
  { [ err |-> Errorf("fetch failed", url), path |-> <<>>, entry |-> cache[f] ] }
  \cup
  { [ err |-> Nil, path |-> Join(f), entry |-> e ] : e \in Downloads(paths) }

\* os.MkdirAll: a directory that is there already is no error, a missing
\* one is created, a blocked one cannot be
MkdirAll(ds) ==
  IF ds = "missing" THEN [ err |-> Nil, state |-> "writable" ]
  ELSE IF ds = "blocked" THEN [ err |-> Errorf("mkdir failed", <<>>), state |-> ds ]
  ELSE [ err |-> Nil, state |-> ds ]

\* ---------------------------------------------------------------- the run

\* a call the run made: the function, the URL, the file name and the
\* path map it was given, the error it returned; for a call of
\* GetCompilerPackageInfo the URL, file name and path map it returned
Op(name, u, f, paths, e) ==
  [ op |-> name, url |-> u, filename |-> f, paths |-> paths, err |-> e ]

Call(name, e) == Op(name, <<>>, <<>>, {}, e)

InfoCall(i) == Op("GetCompilerPackageInfo", i.pkg.URL, i.filename, i.pkg.Paths, i.err)

NoInfo ==
  [ os |-> "", version |-> <<>>, pkg |-> NoPackage, filename |-> <<>>, err |-> Nil ]

Init ==
  /\ catalog = InitialCatalog
  /\ GOOS \in Platforms
  /\ cacheDirState \in CacheDirStates
  /\ cache = [ f \in OwnFiles |-> Absent ]
  /\ dirState \in [ Dirs -> DirStates ]
  /\ pc = "idle"
  /\ version = <<>>
  /\ dir = "d1"
  /\ hit = FALSE
  /\ err = Nil
  /\ pkg = NoPackage
  /\ filename = <<>>
  /\ path = <<>>
  /\ ops = <<>>
  /\ written = {}
  /\ runs = 0
  /\ intact = {}
  /\ recovered = {}
  /\ info = NoInfo

\* a caller starts GetCompilerPackage(version, dir)
Start(v, d) ==
  /\ pc = "idle"
  /\ runs < MaxRuns
  /\ pc' = "GetCacheDir"
  /\ version' = v
  /\ dir' = d
  /\ runs' = runs + 1
  /\ UNCHANGED << recovered, catalog, GOOS, cacheDirState, cache, dirState, hit, err, pkg,
                  filename, path, ops, written, intact, info >>

\* cacheDir, err := GetCacheDir(); if err != nil { return err }
GetCacheDir ==
  /\ pc = "GetCacheDir"
  /\ ops' = Append(ops, Call("GetCacheDir", GetCacheDirResult))
  /\ err' = GetCacheDirResult
  /\ pc' = IF GetCacheDirResult # Nil THEN "done" ELSE "CompilerFromCache"
  /\ UNCHANGED << recovered, catalog, GOOS, cacheDirState, cache, dirState, version, dir,
                  hit, pkg, filename, path, written, runs, intact, info >>

\* mutant: GetCompilerPackage without the return on a hit
AfterCompilerFromCache_NoHitReturn(h, e) ==
  IF e # Nil
  THEN [ pc |-> "done", err |-> Wrapf(e, "failed to get package from cache", version) ]
  ELSE [ pc |-> "CompilerFromNet", err |-> Nil ]

\* GetCompilerPackage after CompilerFromCache returned (h, e)
AfterCompilerFromCache(h, e) ==
  IF e # Nil
  THEN [ pc |-> "done", err |-> Wrapf(e, "failed to get package from cache", version) ]
  ELSE IF h THEN [ pc |-> "done", err |-> Nil ]
  ELSE [ pc |-> "CompilerFromNet", err |-> Nil ]

\* mutant: GetCompilerPackage drops the error of CompilerFromNet
AfterCompilerFromNet_Drop(e) == Nil

\* GetCompilerPackage after CompilerFromNet returned e
AfterCompilerFromNet(e) ==
  IF e # Nil THEN Wrapf(e, "failed to get package from net", version) ELSE Nil

\* mutant: CompilerFromCache hands the error of FromCache on
CompilerFromCacheResult_Propagate(h, e) == [ hit |-> h, err |-> e ]

\* CompilerFromCache after FromCache returned (h, e)
CompilerFromCacheResult(h, e) ==
  IF ~ h THEN [ hit |-> FALSE, err |-> Nil ] ELSE [ hit |-> h, err |-> e ]

\* CompilerFromCache up to the call of FromCache
CompilerFromCacheInfo ==
  /\ pc = "CompilerFromCache"
  /\ LET i == GetCompilerPackageInfo(GOOS, version)
         g == AfterCompilerFromCache(FALSE, i.err)
     IN  /\ ops' = Append(ops, InfoCall(i))
         /\ pkg' = i.pkg
         /\ filename' = i.filename
         /\ IF i.err # Nil
            THEN pc' = g.pc /\ err' = g.err
            ELSE pc' = "FromCache" /\ err' = Nil
  /\ catalog' = CatalogAfter(GOOS, version)
  /\ UNCHANGED << recovered, GOOS, cacheDirState, cache, dirState, version, dir, hit,
                  path, written, runs, intact, info >>

\* the call of FromCache, the rest of CompilerFromCache and the tests
\* GetCompilerPackage makes on its result
FromCache ==
  /\ pc = "FromCache"
  /\ \E o \in FromCacheOutcomes(filename, dir, pkg.Paths) :
       LET r == CompilerFromCacheResult(o.hit, o.err)
           g == AfterCompilerFromCache(r.hit, r.err)
       IN  /\ ops' = Append(ops, Op("FromCache", <<>>, filename, pkg.Paths, o.err))
           /\ written' = written \cup o.written
           /\ dirState' = [ dirState EXCEPT ![dir] = AfterWrite(@, o.written) ]
           /\ hit' = r.hit
           /\ err' = g.err
           /\ pc' = g.pc
  /\ UNCHANGED << recovered, catalog, GOOS, cacheDirState, cache, version, dir, pkg,
                  filename, path, runs, intact, info >>

\* CompilerFromNet up to the test of exists(dir)
CompilerFromNetInfo ==
  /\ pc = "CompilerFromNet"
  /\ LET i == GetCompilerPackageInfo(GOOS, version)
     IN  /\ ops' = Append(ops, InfoCall(i))
         /\ pkg' = i.pkg
         /\ filename' = i.filename
         /\ IF i.err # Nil
            THEN /\ pc' = "done"
                 /\ err' = AfterCompilerFromNet(Wrapf(i.err, "package info mismatch", <<>>))
            ELSE /\ pc' = "MkdirDir"
                 /\ err' = Nil
  /\ catalog' = CatalogAfter(GOOS, version)
  /\ UNCHANGED << recovered, GOOS, cacheDirState, cache, dirState, version, dir, hit,
                  path, written, runs, intact, info >>

\* mutant: CompilerFromNet goes on after a directory could not be created
AfterMkdirAll_GoOn(e, next) == next

\* CompilerFromNet after os.MkdirAll returned e: the return on an error,
\* else the position that follows
AfterMkdirAll(e, next) == IF e # Nil THEN "done" ELSE next

\* if !exists(dir) { err := os.MkdirAll(dir, 0755) ... }
MkdirDir ==
  /\ pc = "MkdirDir"
  /\ IF exists(dir)
     THEN /\ pc' = "MkdirCache"
          /\ UNCHANGED << dirState, err, ops >>
     ELSE LET m == MkdirAll(dirState[dir])
          IN  /\ ops' = Append(ops, Call("MkdirAll(dir)", m.err))
              /\ dirState' = [ dirState EXCEPT ![dir] = m.state ]
              /\ pc' = AfterMkdirAll(m.err, "MkdirCache")
              /\ err' = IF m.err # Nil
                        THEN AfterCompilerFromNet(Wrapf(m.err, "failed to create dir", dir))
                        ELSE Nil
  /\ UNCHANGED << recovered, catalog, GOOS, cacheDirState, cache, version, dir, hit, pkg,
                  filename, path, written, runs, intact, info >>

\* if !exists(cacheDir) { err := os.MkdirAll(cacheDir, 0755) ... }
MkdirCache ==
  /\ pc = "MkdirCache"
  /\ IF existsCacheDir
     THEN /\ pc' = "FromNet"
          /\ UNCHANGED << cacheDirState, err, ops >>
     ELSE LET m == MkdirAll(cacheDirState)
          IN  /\ ops' = Append(ops, Call("MkdirAll(cacheDir)", m.err))
              /\ cacheDirState' = IF m.err = Nil THEN "exists" ELSE cacheDirState
              /\ pc' = AfterMkdirAll(m.err, "FromNet")
              /\ err' = IF m.err # Nil
                        THEN AfterCompilerFromNet(Wrapf(m.err, "failed to create cache", <<>>))
                        ELSE Nil
  /\ UNCHANGED << recovered, catalog, GOOS, cache, dirState, version, dir, hit, pkg,
                  filename, path, written, runs, intact, info >>

\* mutant: CompilerFromNet goes on to pkg.Method after a failed fetch
AfterFromNet_Continue(p, e) == [ pc |-> "Method", err |-> Nil ]

\* CompilerFromNet after FromNet returned (p, e): the next position and
\* the error of CompilerFromNet
AfterFromNet(p, e) ==
  IF e # Nil
  THEN [ pc |-> "done", err |-> Wrapf(e, "failed to download package", <<>>) ]
  ELSE [ pc |-> "Method", err |-> Nil ]

\* mutant: CompilerFromNet drops the error of pkg.Method
AfterMethod_Swallow(p, e) == Nil

\* CompilerFromNet after pkg.Method returned e
AfterMethod(p, e) ==
  IF e # Nil THEN Wrapf(e, "failed to unzip package", p) ELSE Nil

\* the versions of a set that keep their cache file when the run writes
\* the cache file f: the version of the run, and the versions of another
\* file name
Untouched(vs, f) ==
  { v \in vs : v = version \/ GetCompilerPackageInfo(GOOS, v).filename # f }

\* path, err := FromNet(pkg.URL, cacheDir, filename)
FromNet ==
  /\ pc = "FromNet"
  /\ \E o \in FromNetOutcomes(pkg.URL, filename, pkg.Paths) :
       LET g == AfterFromNet(o.path, o.err)
       IN  /\ ops' = Append(ops, Op("FromNet", pkg.URL, filename, {}, o.err))
           /\ cache' = [ cache EXCEPT ![filename] = o.entry ]
           /\ path' = o.path
           /\ pc' = g.pc
           /\ err' = AfterCompilerFromNet(g.err)
  /\ intact' = Untouched(intact, filename)
  /\ recovered' = Untouched(recovered, filename)
  /\ UNCHANGED << catalog, GOOS, cacheDirState, dirState, version, dir, hit,
                  pkg, filename, written, runs, info >>

\* err = pkg.Method(path, dir, pkg.Paths)
Method ==
  /\ pc = "Method"
  /\ \E o \in ExtractOutcomes(EntryAt(path), dirState[dir], pkg.Paths) :
       /\ ops' = Append(ops, Op(pkg.Method, <<>>, FileOf(path), pkg.Paths, o.err))
       /\ written' = written \cup o.written
       /\ dirState' = [ dirState EXCEPT ![dir] = AfterWrite(@, o.written) ]
       /\ err' = AfterCompilerFromNet(AfterMethod(path, o.err))
       /\ pc' = "done"
  /\ UNCHANGED << recovered, catalog, GOOS, cacheDirState, cache, version, dir, hit, pkg,
                  filename, path, runs, intact, info >>

\* FromCache found the file and its content failed the extraction
CorruptFound ==
  \E i \in DOMAIN ops :
    /\ ops[i].op = "FromCache"
    /\ ops[i].err # Nil
    /\ Cause(ops[i].err)[1] \in {"not an archive", "missing member"}

\* GetCompilerPackage returns err to its caller, which drops the results
Return ==
  /\ pc = "done"
  /\ pc' = "idle"
  /\ intact' = IF err = Nil THEN intact \cup {version} ELSE intact \ {version}
  /\ recovered' = IF err # Nil THEN recovered \ {version}
                  ELSE IF hit THEN recovered
                  ELSE IF CorruptFound THEN recovered \cup {version}
                  ELSE recovered \ {version}
  /\ version' = <<>>
  /\ dir' = "d1"
  /\ hit' = FALSE
  /\ err' = Nil
  /\ pkg' = NoPackage
  /\ filename' = <<>>
  /\ path' = <<>>
  /\ ops' = <<>>
  /\ written' = {}
  /\ UNCHANGED << catalog, GOOS, cacheDirState, cache, dirState, runs, info >>

\* between two runs something other than this program removes or damages
\* a cache file
ExternalChange(f, e) ==
  /\ pc = "idle"
  /\ existsCacheDir
  /\ cache[f] # e
  /\ cache' = [ cache EXCEPT ![f] = e ]
  /\ intact' = { v \in intact : GetCompilerPackageInfo(GOOS, v).filename # f }
  /\ recovered' = { v \in recovered : GetCompilerPackageInfo(GOOS, v).filename # f }
  /\ UNCHANGED << catalog, GOOS, cacheDirState, dirState, pc, version, dir, hit,
                  err, pkg, filename, path, ops, written, runs, info >>

Next ==
  \/ \E v \in Versions, d \in Dirs : Start(v, d)
  \/ GetCacheDir
  \/ CompilerFromCacheInfo
  \/ FromCache
  \/ CompilerFromNetInfo
  \/ MkdirDir
  \/ MkdirCache
  \/ FromNet
  \/ Method
  \/ Return
  \/ \E f \in OwnFiles, e \in {Absent, Corrupt} : ExternalChange(f, e)

Spec == Init /\ [][Next]_vars

\* ------------------------------------- GetCompilerPackageInfo called alone

\* a caller calls GetCompilerPackageInfo(os, v)
Lookup(os, v) ==
  /\ pc = "idle"
  /\ LET i == GetCompilerPackageInfo(os, v)
     IN  info' = [ os |-> os, version |-> v, pkg |-> i.pkg,
                   filename |-> i.filename, err |-> i.err ]
  /\ catalog' = CatalogAfter(os, v)
  /\ UNCHANGED << recovered, GOOS, cacheDirState, cache, dirState, pc, version, dir, hit,
                  err, pkg, filename, path, ops, written, runs, intact >>

NextInfo == \E os \in Platforms, v \in AllVersions : Lookup(os, v)

SpecInfo == Init /\ [][NextInfo]_vars

\* ------------------------------------------------------------------ claims

\* the positions in ops of the calls of a function
OpsOf(name) == { i \in DOMAIN ops : ops[i].op = name }

Count(name) == Cardinality(OpsOf(name))

Did(name) == OpsOf(name) # {}

\* a call of the function returned without / with an error
Ok(name) == \E i \in OpsOf(name) : ops[i].err = Nil

Failed(name) == \E i \in OpsOf(name) : ops[i].err # Nil

\* the position of the call of pkg.Method made by CompilerFromNet
MethodOps == OpsOf("Unzip") \cup OpsOf("Untar")

MethodOk == \E i \in MethodOps : ops[i].err = Nil

MethodFailed == \E i \in MethodOps : ops[i].err # Nil

\* the descriptor of the run
RunInfo == GetCompilerPackageInfo(GOOS, version)

\* the messages of an error
Layers(e) == { e[i] : i \in DOMAIN e }

\* the destination of the run exists and can be written, or can be created
DirUsable == dirState[dir] \notin {"readonly", "blocked"}

\* the file is an archive that holds every member the path map names
Valid(entry, paths) == entry.state = "archive" /\ Keys(paths) \subseteq entry.members

\* C1: whenever the cache stage reports a hit, the run is over without
\* error and CompilerFromNet was never entered: FromCache is the last of
\* the three calls made, no directory was created, nothing was fetched and
\* pkg.Method was not called.
C1_HitEndsFlow ==
  hit =>
    /\ pc = "done"
    /\ err = Nil
    /\ Len(ops) = 3
    /\ ops[3].op = "FromCache"
    /\ Count("GetCompilerPackageInfo") = 1
    /\ ~ Did("MkdirAll(dir)")
    /\ ~ Did("MkdirAll(cacheDir)")
    /\ ~ Did("FromNet")
    /\ MethodOps = {}

\* a run that ended with a cache hit
C1_Witness == hit /\ pc = "done" /\ Ok("FromCache")

\* C2 as stated: a run for a version whose last run succeeded, its cache
\* file written by nothing else since, fetches nothing, whatever the
\* destination directory; into a destination that can be written or
\* created it is a cache hit without error that installs the files the
\* path map names.
C2_Idempotence ==
  (pc = "done" /\ version \in intact) =>
    /\ ~ Did("FromNet")
    /\ DirUsable => /\ hit
                    /\ err = Nil
                    /\ written = Values(RunInfo.pkg.Paths)

\* C3: when FromCache found the file and failed to extract it, the cache
\* stage reports a miss without error and the run goes on into
\* CompilerFromNet as for an absent file; if the fetch and the extraction
\* of the download succeed the run ends without error, and the error
\* FromCache returned is never part of the error of the run.
C3_CorruptIsMiss ==
  Failed("FromCache") =>
    /\ ~ hit
    /\ pc \in {"CompilerFromNet", "MkdirDir", "MkdirCache", "FromNet", "Method", "done"}
    /\ (pc = "CompilerFromNet") => (err = Nil /\ Len(ops) = 3)
    /\ (pc # "CompilerFromNet") => Count("GetCompilerPackageInfo") = 2
    /\ (Ok("FromNet") /\ MethodOk) => (pc = "done" /\ err = Nil)
    /\ \A i \in OpsOf("FromCache") : Head(ops[i].err) \notin Layers(err)

\* a run that found a corrupt cache file and ended without error
C3_Witness ==
  /\ pc = "done"
  /\ Failed("FromCache")
  /\ Ok("FromNet")
  /\ MethodOk
  /\ err = Nil

\* the cache file of a version of the running platform
EntryOf(v) == cache[GetCompilerPackageInfo(GOOS, v).filename]

PathsOf(v) == GetCompilerPackageInfo(GOOS, v).pkg.Paths

\* C4 as stated: a run that found a corrupt cache file and whose fetch
\* and extraction of the download succeeded ends without error, the cache
\* file replaced by a valid one; every following run of the version, its
\* cache file written by nothing else since, fetches nothing, and into a
\* destination that can be written or created it is a cache hit without
\* error.
C4_CorruptRecovery ==
  /\ (pc = "done" /\ CorruptFound /\ Ok("FromNet") /\ MethodOk) =>
       /\ err = Nil
       /\ Valid(EntryOf(version), PathsOf(version))
  /\ (pc = "done" /\ version \in recovered) =>
       /\ Count("FromNet") = 0
       /\ DirUsable => (hit /\ err = Nil)

\* C5 as stated: on a platform outside the catalog the run fails and has
\* made no call but the descriptor lookup: no cache-directory resolution,
\* no directory creation, no cache lookup, no fetch, no extraction.
C5_NoIOBeforeFailure ==
  (pc = "done" /\ GOOS \notin Supported) =>
    /\ err # Nil
    /\ \A i \in DOMAIN ops : ops[i].op = "GetCompilerPackageInfo"

\* C6 as stated: the error of GetCompilerPackageInfo for a platform
\* outside the catalog names the platform that was asked for.
C6_ErrorNamesRequested ==
  (info.os # "" /\ info.os \notin Supported) =>
    /\ info.err # Nil
    /\ Cause(info.err) = <<"unsupported OS", info.os>>

\* C7: a run ends without error only if the cache stage extracted every
\* mapped member from the cached file, or the fetch and the extraction of
\* the download both succeeded; a run in which the cache-directory
\* resolution, a directory creation, the fetch or the extraction of the
\* download failed ends with an error.
C7_NoFalseSuccess ==
  /\ (pc = "done" /\ err = Nil) =>
       \/ hit /\ Ok("FromCache") /\ written = Values(RunInfo.pkg.Paths)
       \/ Ok("FromNet") /\ MethodOk /\ Values(RunInfo.pkg.Paths) \subseteq written
  /\ ( /\ pc = "done"
       /\ \/ Failed("GetCacheDir")
          \/ Failed("MkdirAll(dir)")
          \/ Failed("MkdirAll(cacheDir)")
          \/ Failed("FromNet")
          \/ MethodFailed ) => err # Nil

\* a run that wrote a file and then failed to extract the download
C7_Witness == pc = "done" /\ MethodFailed /\ written # {} /\ err # Nil

\* C8: FromNet is called at most once in a run; when it fails the run is
\* over with an error whose cause is the error of FromNet, and pkg.Method
\* is not called.
C8_FetchFailure ==
  /\ Count("FromNet") <= 1
  /\ \A i \in OpsOf("FromNet") :
       ops[i].err # Nil =>
         /\ pc = "done"
         /\ Len(err) = 3
         /\ SubSeq(err, 3, 3) = ops[i].err
         /\ i = Len(ops)
         /\ MethodOps = {}

\* a run whose fetch failed
C8_Witness == pc = "done" /\ Failed("FromNet") /\ err # Nil

\* C9: pkg.Method is called at most once on the download; when it fails
\* the run is over with an error whose cause is the error of pkg.Method,
\* after one fetch and one extraction.
C9_ExtractFailure ==
  /\ Cardinality(MethodOps) <= 1
  /\ \A i \in MethodOps :
       ops[i].err # Nil =>
         /\ pc = "done"
         /\ Len(err) = 3
         /\ SubSeq(err, 3, 3) = ops[i].err
         /\ i = Len(ops)
         /\ Count("FromNet") = 1

\* a run whose extraction of the download failed
C9_Witness == pc = "done" /\ MethodFailed /\ Ok("FromNet") /\ err # Nil

\* C10 as stated: when CompilerFromCache is about to call FromCache the
\* install directory exists.
C10_DirEnsured == (pc = "FromCache") => exists(dir)

\* a string without an occurrence of the version placeholder
PlaceholderFree(s) == \A i \in DOMAIN s : s[i] # VER

\* C11: for a platform of the catalog and a version string without
\* placeholder syntax, the descriptor GetCompilerPackageInfo returns has no
\* placeholder left in its URL nor in any key or value of its path map,
\* and its path map has as many keys as the path map of the catalog.
C11_ResolutionTotal ==
  (info.os \in Supported /\ PlaceholderFree(info.version)) =>
    /\ PlaceholderFree(info.pkg.URL)
    /\ \A p \in info.pkg.Paths : PlaceholderFree(p[1]) /\ PlaceholderFree(p[2])
    /\ Cardinality(Keys(info.pkg.Paths)) =
         Cardinality(Keys(Catalog(info.os).Paths))

\* the descriptor of linux was resolved with a version that is escaped
C11_Witness ==
  /\ info.os = "linux"
  /\ info.version = <<"<">>
  /\ Cardinality(Keys(info.pkg.Paths)) = 2
  /\ PlaceholderFree(info.pkg.URL)
  /\ info.pkg.URL # <<>>

\* the template with every placeholder replaced by the version as it is
Substitute(tmpl, v) ==
  Concat([i \in 1..Len(tmpl) |-> IF tmpl[i] = VER THEN v ELSE <<tmpl[i]>>])

\* C12 as stated: the URL and every key and value of the path map that
\* GetCompilerPackageInfo returns are the catalog's templates with each
\* placeholder replaced by the version string character for character.
C12_LiteralSubstitution ==
  (info.os \in Supported) =>
    /\ info.pkg.URL = Substitute(Catalog(info.os).URL, info.version)
    /\ info.pkg.Paths =
         { << Substitute(p[1], info.version), Substitute(p[2], info.version) >> :
             p \in Catalog(info.os).Paths }

\* the package of a platform as the catalog was written
Original(os) ==
  IF os = "windows" THEN pawnWin32
  ELSE IF os = "linux" THEN pawnLinux
  ELSE pawnMacOS

\* C13: the platform catalog is never changed: in every state the URL
\* template, the method and the path-map templates of pawnMacOS, pawnLinux
\* and pawnWin32 are those the program started with, and every descriptor
\* a call of GetCompilerPackageInfo returned in the run, whatever versions
\* the runs before it had, is resolved from those templates.
C13_CatalogUnchanged ==
  /\ catalog = InitialCatalog
  /\ \A i \in OpsOf("GetCompilerPackageInfo") :
       GOOS \in Supported =>
         /\ ops[i].url = Execute(Original(GOOS).URL, version)
         /\ ops[i].paths = NewPaths(Original(GOOS).Paths, version)

\* a run of one version succeeded, a later run of another version has
\* called GetCompilerPackageInfo and ended
C13_Witness ==
  /\ intact = { <<"A">> }
  /\ version = <<"%">>
  /\ GOOS \in Supported
  /\ Count("GetCompilerPackageInfo") = 1
  /\ pc = "done"
  /\ catalog = InitialCatalog

\* the stage of the call that failed last in the run
StageFailed ==
  LET o == ops[Len(ops)].op
  IN  CASE o = "GetCompilerPackageInfo" -> "descriptor resolution"
        [] o \in {"GetCacheDir", "FromCache"} -> "cache"
        [] o \in {"MkdirAll(dir)", "MkdirAll(cacheDir)"} -> "directory"
        [] o = "FromNet" -> "network"
        [] OTHER -> "extraction"

\* the stage the messages of an error of GetCompilerPackage name: the
\* message GetCompilerPackage wrapped it with and, under "from net", the
\* message of CompilerFromNet
StageNamed(e) ==
  LET top == e[1][1]
      sub == IF Len(e) > 1 THEN e[2][1] ELSE ""
  IN  CASE top = "failed to get package from cache" -> "cache"
        [] top = "no cache directory" -> "cache"
        [] top = "failed to get package from net" /\ sub = "package info mismatch" ->
             "descriptor resolution"
        [] top = "failed to get package from net"
             /\ sub \in {"failed to create dir", "failed to create cache"} -> "directory"
        [] top = "failed to get package from net" /\ sub = "failed to download package" ->
             "network"
        [] top = "failed to get package from net" /\ sub = "failed to unzip package" ->
             "extraction"
        [] OTHER -> "none"

\* C15 as stated: the error a run ends with names the stage of the call
\* that failed; a failure of the descriptor resolution is named as one,
\* not as a failure of the cache stage or of the network stage.
C15_ErrorNamesStage ==
  (pc = "done" /\ err # Nil) =>
    /\ ops[Len(ops)].err # Nil
    /\ StageNamed(err) = StageFailed

\* FromCache found the file and failed on the destination, not on the
\* content of the file
IOErrorFound(i) ==
  /\ ops[i].op = "FromCache"
  /\ ops[i].err # Nil
  /\ Cause(ops[i].err)[1] = "write failed"

\* C16 as stated: when the cache stage fails with a permission or I/O
\* error the run is over with that error; CompilerFromNet is not entered
\* and nothing is fetched.
C16_IOErrorFatal ==
  \A i \in DOMAIN ops :
    IOErrorFound(i) =>
      /\ pc = "done"
      /\ err # Nil
      /\ Cause(err) = Cause(ops[i].err)
      /\ i = Len(ops)
      /\ ~ Did("FromNet")

\* the calls of os.MkdirAll made before position i
MkdirsBefore(i) ==
  { j \in 1..(i - 1) : ops[j].op \in {"MkdirAll(dir)", "MkdirAll(cacheDir)"} }

\* C17: FromNet is called only after the cache stage returned a miss and
\* with the install directory and the cache directory in place, each
\* found or created without error; pkg.Method is called only right after
\* FromNet returned without error, on the path FromNet returned; after a
\* failed creation of either directory FromNet is not called.
C17_StageOrder ==
  /\ \A i \in OpsOf("FromNet") :
       /\ \E j \in 1..(i - 1) : ops[j].op = "FromCache"
       /\ ~ hit
       /\ \A j \in MkdirsBefore(i) : ops[j].err = Nil
       /\ exists(dir)
       /\ existsCacheDir
  /\ \A i \in MethodOps :
       /\ i > 1
       /\ ops[i - 1].op = "FromNet"
       /\ ops[i - 1].err = Nil
       /\ Join(ops[i].filename) = path
       /\ ops[i].filename = ops[i - 1].filename
  /\ (Failed("MkdirAll(dir)") \/ Failed("MkdirAll(cacheDir)")) =>
       (pc = "done" /\ ~ Did("FromNet") /\ MethodOps = {})

\* a run that created both directories, fetched and extracted
C17_Witness ==
  /\ pc = "done"
  /\ Ok("MkdirAll(dir)")
  /\ Ok("MkdirAll(cacheDir)")
  /\ Ok("FromNet")
  /\ MethodOps # {}

\* the calls that look the cache up, create a directory, fetch or extract
IOCalls ==
  { "FromCache", "MkdirAll(dir)", "MkdirAll(cacheDir)", "FromNet", "Unzip", "Untar" }

\* C18 as stated: every call of GetCompilerPackageInfo in a run comes
\* before the first cache lookup, directory creation, fetch or
\* extraction of that run.
C18_ResolveBeforeIO ==
  \A i \in OpsOf("GetCompilerPackageInfo") :
    \A j \in 1..(i - 1) : ops[j].op \notin IOCalls

====
